---- MODULE Spec2Model ----
(***************************************************************************)
(* Model of the MCP weather server (mcp_weather_server.py).                *)
(*                                                                         *)
(* One tool invocation is one action: handle_call_tool runs to completion  *)
(* before the transport loop hands over the next request.  The upstream    *)
(* HTTP API is the environment: every response the handler consumes is     *)
(* drawn from a bounded set, and every request it issues is appended to    *)
(* the log `calls`, in the order the code issues them.                     *)
(*                                                                         *)
(* Python values read out of JSON payloads are records [t, n, s]:          *)
(*   t = "num"  a number n; measurements (temperatures, speeds, distances, *)
(*              percentages) are carried in thousandths of their unit,     *)
(*              counts (limit) as they are                                 *)
(*   t = "str"  a string, s its text                                       *)
(*   t = "none" JSON null / Python None                                    *)
(*   t = "missing" the key is absent from the enclosing object           *)
(***************************************************************************)
EXTENDS Integers, Sequences, FiniteSets, TLC

VARIABLES
    pc,        \* "idle": waiting for a request; "done": handle_call_tool returned or raised
    name,      \* tool name of the current invocation
    arguments, \* its arguments: a function from the keys present to values
    calls,     \* upstream requests issued by the invocation, in order, with their responses
    data_ret,  \* what the data assembler returned to handle_call_tool (weather_data / forecast_data)
    returned,  \* what handle_call_tool returned (a text response) or the fault it raised
    forecast_list \* forecast-selection specification: the series the upstream will answer with

vars == <<pc, name, arguments, calls, data_ret, returned, forecast_list>>

----------------------------------------------------------------------------
(* Bounds of the model *)

\* longest upstream forecast list of the dispatcher specification
MaxFcLen == 2
\* most matches the upstream geocoder returns to a city search
MaxMatches == 4
\* largest `limit` argument tried for search_cities
MaxLimit == 3
\* largest air-quality index the upstream reports
MaxAqi == 6
\* longest upstream forecast list of the forecast-selection specification
MaxSamples == 6

----------------------------------------------------------------------------
(* Python values *)

Num(n) == [t |-> "num", n |-> n, s |-> ""]
Str(s) == [t |-> "str", n |-> 0, s |-> s]
PyNone == [t |-> "none", n |-> 0, s |-> ""]
Missing == [t |-> "missing", n |-> 0, s |-> ""]

\* dict.get(key, default) on a field that may be absent
Get(v, default) == IF v.t = "missing" THEN default ELSE v

\* a test for the empty string and zero only, which lets None through
TruthyUnlessEmpty(v) ==
    CASE v.t = "num" -> v.n # 0
      [] v.t = "str" -> v.s # ""
      [] OTHER -> TRUE

\* truthiness of a value used in `if x:` / `if not x:`
Truthy(v) ==
    CASE v.t = "num" -> v.n # 0
      [] v.t = "str" -> v.s # ""
      [] OTHER -> FALSE

\* F applied to the value of v, which is computed once: the assignment of a
\* call's result to a local variable
With(v, F(_)) == CHOOSE r \in {F(x) : x \in {v}} : TRUE

\* arguments.get(key, default)
ArgGet(args, key, default) == IF key \in DOMAIN args THEN args[key] ELSE default

----------------------------------------------------------------------------
(* Upstream endpoints and responses *)

WEATHER_URL == "data/2.5/weather"
FORECAST_URL == "data/2.5/forecast"
GEOCODING_URL == "geo/1.0/direct"
AIR_POLLUTION_URL == "data/2.5/air_pollution"

\* A response is a raised exception (network error, timeout), or a status
\* code with a body; the body BadJson makes response.json() raise.
BadJson == [valid |-> FALSE]
JsonBody(v) == [valid |-> TRUE, val |-> v]
Exc == [kind |-> "exc", status |-> 0, body |-> BadJson]
Http(status, body) == [kind |-> "http", status |-> status, body |-> body]

\* one request of the log: endpoint, how the place is addressed ("q" or
\* "latlon"), the limit parameter (Missing when not sent), the timeout in
\* seconds, the response
Request(url, by, limit, timeout, resp) ==
    [url |-> url, by |-> by, limit |-> limit, timeout |-> timeout, resp |-> resp]

\* result of a function that may raise
Ret(v) == [raised |-> FALSE, val |-> v]
Raised(e) == [raised |-> TRUE, val |-> e]

\* response.json()
Json(resp) == IF resp.body.valid THEN Ret(resp.body.val) ELSE Raised("JSONDecodeError")

----------------------------------------------------------------------------
(* get_coordinates_for_city *)

\* a geocoding body is a sequence of locations [lat, lon, name, country]
get_coordinates_for_city(city, resp) ==
    LET call == <<Request(GEOCODING_URL, "q", Num(1), 10, resp)>>
        none == [ret |-> PyNone, calls |-> call]
    IN  IF resp.kind = "exc" THEN none
        ELSE IF resp.status # 200 THEN none
        ELSE IF Json(resp).raised THEN none
        ELSE LET data == Json(resp).val
             IN  IF Len(data) > 0
                 THEN LET location == data[1]
                      IN  IF \/ location.lat.t = "missing"
                             \/ location.lon.t = "missing"
                             \/ location.name.t = "missing"
                          THEN none
                          ELSE [ret |-> [t |-> "dict",
                                         lat |-> location.lat,
                                         lon |-> location.lon,
                                         name |-> location.name,
                                         country |-> Get(location.country, Str(""))],
                                calls |-> call]
                 ELSE none

----------------------------------------------------------------------------
(* get_air_quality_data *)

\* the label table indexed from 0, and failing over to the worst label
aqi_labels_from_zero(aqi) ==
    CASE aqi = 0 -> "Good"
      [] aqi = 1 -> "Fair"
      [] aqi = 2 -> "Moderate"
      [] aqi = 3 -> "Poor"
      [] OTHER -> "Very Poor"

aqi_labels(aqi) ==
    CASE aqi = 1 -> "Good"
      [] aqi = 2 -> "Fair"
      [] aqi = 3 -> "Moderate"
      [] aqi = 4 -> "Poor"
      [] aqi = 5 -> "Very Poor"
      [] OTHER -> "Unknown"

aqi_colors(aqi) ==
    CASE aqi = 1 -> "green"
      [] aqi = 2 -> "yellow"
      [] aqi = 3 -> "orange"
      [] aqi = 4 -> "red"
      [] aqi = 5 -> "purple"
      [] OTHER -> "white"

\* the lookup with one retry: a failed attempt is issued a second time
\* before giving up
get_air_quality_data_retrying(lat, lon, resp) ==
    LET call == <<Request(AIR_POLLUTION_URL, "latlon", Missing, 10, resp)>>
        none == [ret |-> PyNone, calls |-> call \o call]
    IN  IF resp.kind = "exc" THEN none
        ELSE IF resp.status # 200 THEN none
        ELSE IF Json(resp).raised THEN none
        ELSE LET data == Json(resp).val
             IN  IF ~data.haslist THEN none
                 ELSE [ret |-> [t |-> "dict",
                                aqi |-> data.aqi,
                                aqi_label |-> aqi_labels(data.aqi),
                                aqi_color |-> aqi_colors(data.aqi)],
                       calls |-> call]

\* an air-pollution body is [haslist, aqi]: data['list'][0]['main']['aqi']
\* raises when haslist is FALSE, and is the integer aqi otherwise
get_air_quality_data(lat, lon, resp) ==
    LET call == <<Request(AIR_POLLUTION_URL, "latlon", Missing, 10, resp)>>
        none == [ret |-> PyNone, calls |-> call]
    IN  IF resp.kind = "exc" THEN none
        ELSE IF resp.status # 200 THEN none
        ELSE IF Json(resp).raised THEN none
        ELSE LET data == Json(resp).val
             IN  IF ~data.haslist THEN none
                 ELSE [ret |-> [t |-> "dict",
                                aqi |-> data.aqi,
                                aqi_label |-> aqi_labels(data.aqi),
                                aqi_color |-> aqi_colors(data.aqi)],
                       calls |-> call]

----------------------------------------------------------------------------
(* get_weather_data *)

\* the conversion left out: the speed stays in m/s
ToMphUnconverted(n) == n

\* wind_speed * 2.237, on thousandths
ToMph(n) == (n * 2237) \div 1000

\* datetime.fromtimestamp(ts).strftime('%H:%M') if ts else '--:--'
\* (the time of day is rendered in the host's time zone; the model keeps
\* only which of the two forms is produced)
FormatTime(ts) == IF Truthy(ts) THEN "HH:MM" ELSE "--:--"

\* Lines 110-147 (direct) and 173-207 (fallback) raise, and the function's
\* except clause returns None, when a subscripted key is absent or an
\* operand has the wrong type.  `direct` tells the two copies apart: the
\* fallback copy takes the place name and country from the geocoder.
ReportRaises(data, units, direct) ==
    \/ ~data.has_sys
    \/ Truthy(Get(data.sunrise, Num(0))) /\ data.sunrise.t # "num"
    \/ Truthy(Get(data.sunset, Num(0))) /\ data.sunset.t # "num"
    \/ units = Str("imperial") /\ Get(data.wind_speed, Num(0)).t # "num"
    \/ data.temp.t = "missing"
    \/ data.feels_like.t = "missing"
    \/ data.description.t = "missing"
    \/ data.humidity.t = "missing"
    \/ Get(data.visibility, Num(0)).t # "num"
    \/ direct /\ (data.name.t = "missing" \/ data.country.t = "missing")

\* lines 150-155 / 209-214 without the `if air_quality:` guard: updating
\* from None raises, and the except clause returns None
MergeAirQualityUnguarded(result, air_quality) ==
    IF air_quality = PyNone
    THEN PyNone
    ELSE [aqi |-> air_quality.aqi,
          aqi_label |-> air_quality.aqi_label,
          aqi_color |-> air_quality.aqi_color] @@ result

\* lines 150-155 / 209-214: the air-quality fields are merged when the
\* lookup returned them
MergeAirQuality(result, air_quality) ==
    IF air_quality # PyNone
    THEN [aqi |-> air_quality.aqi,
          aqi_label |-> air_quality.aqi_label,
          aqi_color |-> air_quality.aqi_color] @@ result
    ELSE result

\* the `result` dict of lines 127-147 / 187-207, then the merge
WeatherReport(data, units, air_quality, city, country, lat, lon) ==
    LET temp_unit == IF units = Str("imperial") THEN "F" ELSE "C"
        speed_unit == IF units = Str("imperial") THEN "mph" ELSE "m/s"
        speed == Get(data.wind_speed, Num(0))
        wind_speed == IF units = Str("imperial") THEN Num(ToMph(speed.n)) ELSE speed
        result0 == [temperature |-> data.temp,
                    temp_unit |-> temp_unit,
                    feels_like |-> data.feels_like,
                    condition |-> data.description,
                    humidity |-> data.humidity,
                    wind_speed |-> wind_speed,
                    wind_unit |-> speed_unit,
                    wind_direction |-> Get(data.wind_deg, Num(0)),
                    clouds |-> Get(data.clouds, Num(0)),
                    visibility |-> Num(Get(data.visibility, Num(0)).n \div 1000),
                    pressure |-> Get(data.pressure, Num(0)),
                    sunrise |-> FormatTime(Get(data.sunrise, Num(0))),
                    sunset |-> FormatTime(Get(data.sunset, Num(0))),
                    city |-> city,
                    country |-> country,
                    coordinates |-> [lat |-> lat, lon |-> lon]]
    IN  MergeAirQuality(result0, air_quality)

\* the branch taken when a weather response has status 200 (lines 108-157
\* with direct = TRUE, lines 170-216 with direct = FALSE)
WeatherBranch(resp, units, aq, direct, coordinates) ==
    IF Json(resp).raised THEN [ret |-> PyNone, calls |-> <<>>]
    ELSE LET data == Json(resp).val
         IN  IF direct /\ (data.coord_lat.t = "missing" \/ data.coord_lon.t = "missing")
             THEN [ret |-> PyNone, calls |-> <<>>]
             ELSE LET lat == IF direct THEN data.coord_lat ELSE coordinates.lat
                      lon == IF direct THEN data.coord_lon ELSE coordinates.lon
                      air == get_air_quality_data(lat, lon, aq)
                  IN  IF ReportRaises(data, units, direct)
                      THEN [ret |-> PyNone, calls |-> air.calls]
                      ELSE [ret |-> WeatherReport(data, units, air.ret,
                                        IF direct THEN data.name ELSE coordinates.name,
                                        IF direct THEN data.country ELSE coordinates.country,
                                        lat, lon),
                            calls |-> air.calls]

\* the fallback giving up once the city is geocoded: no second weather
\* request
GeocodingFallbackNoRetry(city, units, geo, wc, aq) ==
    LET g == get_coordinates_for_city(city, geo)
    IN  [ret |-> PyNone, calls |-> g.calls]

\* lines 159-217: the geocoding fallback
GeocodingFallback(city, units, geo, wc, aq) ==
    LET g == get_coordinates_for_city(city, geo)
        coordinates == g.ret
    IN  IF coordinates # PyNone
        THEN LET second == <<Request(WEATHER_URL, "latlon", Missing, 10, wc)>>
             IN  IF wc.kind = "exc"
                 THEN [ret |-> PyNone, calls |-> g.calls \o second]
                 ELSE IF wc.status = 200
                 THEN LET b == WeatherBranch(wc, units, aq, FALSE, coordinates)
                      IN  [ret |-> b.ret, calls |-> g.calls \o second \o b.calls]
                 ELSE [ret |-> PyNone, calls |-> g.calls \o second]
        ELSE [ret |-> PyNone, calls |-> g.calls]

\* the fallback also taken when the name-based request raises
get_weather_data_fallback_on_error(city, units, wq, geo, wc, aq) ==
    LET first == <<Request(WEATHER_URL, "q", Missing, 10, wq)>>
    IN  IF wq.kind # "exc" /\ wq.status = 200
        THEN LET b == WeatherBranch(wq, units, aq, TRUE, PyNone)
             IN  [ret |-> b.ret, calls |-> first \o b.calls]
        ELSE LET f == GeocodingFallback(city, units, geo, wc, aq)
             IN  [ret |-> f.ret, calls |-> first \o f.calls]

\* wq: response to the name-based weather request; geo: to the geocoding
\* request; wc: to the coordinate-based weather request; aq: to the
\* air-pollution request.  Only the responses of requests actually issued
\* are consumed.
get_weather_data(city, units, wq, geo, wc, aq) ==
    LET first == <<Request(WEATHER_URL, "q", Missing, 10, wq)>>
    IN  IF wq.kind = "exc" THEN [ret |-> PyNone, calls |-> first]
        ELSE IF wq.status = 200
        THEN LET b == WeatherBranch(wq, units, aq, TRUE, PyNone)
             IN  [ret |-> b.ret, calls |-> first \o b.calls]
        ELSE LET f == GeocodingFallback(city, units, geo, wc, aq)
             IN  [ret |-> f.ret, calls |-> first \o f.calls]

----------------------------------------------------------------------------
(* get_forecast_data *)

\* A dt_txt string is the sequence of its characters, so that the slices
\* [:10] and [11:13] are taken as the code takes them.
Digits == <<"0", "1", "2", "3", "4", "5", "6", "7", "8", "9">>
IsDigit(c) == c \in {"0", "1", "2", "3", "4", "5", "6", "7", "8", "9"}
DigitVal(c) ==
    CASE c = "0" -> 0 [] c = "1" -> 1 [] c = "2" -> 2 [] c = "3" -> 3 [] c = "4" -> 4
      [] c = "5" -> 5 [] c = "6" -> 6 [] c = "7" -> 7 [] c = "8" -> 8 [] c = "9" -> 9

\* s[a:b] of Python, on a sequence of characters
Slice(s, a, b) ==
    LET hi == IF b < Len(s) THEN b ELSE Len(s)
    IN  IF a >= hi THEN <<>> ELSE SubSeq(s, a + 1, hi)

\* datetime.strptime(date_str, '%Y-%m-%d'): raises ValueError unless the
\* text is year-month-day
strptime(date_str) ==
    IF /\ Len(date_str) = 10
       /\ date_str[5] = "-" /\ date_str[8] = "-"
       /\ \A i \in {1, 2, 3, 4, 6, 7, 9, 10} : IsDigit(date_str[i])
    THEN LET y == 1000 * DigitVal(date_str[1]) + 100 * DigitVal(date_str[2])
                  + 10 * DigitVal(date_str[3]) + DigitVal(date_str[4])
             m == 10 * DigitVal(date_str[6]) + DigitVal(date_str[7])
             d == 10 * DigitVal(date_str[9]) + DigitVal(date_str[10])
         IN  IF m \in 1..12 /\ d \in 1..31 /\ y >= 1
             THEN Ret([year |-> y, month |-> m, day |-> d])
             ELSE Raised("ValueError")
    ELSE Raised("ValueError")

DayNames == <<"Sun", "Mon", "Tue", "Wed", "Thu", "Fri", "Sat">>
MonthNames == <<"Jan", "Feb", "Mar", "Apr", "May", "Jun",
                "Jul", "Aug", "Sep", "Oct", "Nov", "Dec">>

\* days from 1970-01-01 to the given date of the Gregorian calendar
DaysFromCivil(y, m, d) ==
    LET yy == IF m <= 2 THEN y - 1 ELSE y
        era == yy \div 400
        yoe == yy - era * 400
        mp == IF m > 2 THEN m - 3 ELSE m + 9
        doy == (153 * mp + 2) \div 5 + d - 1
        doe == yoe * 365 + yoe \div 4 - yoe \div 100 + doy
    IN  era * 146097 + doe - 719468

\* date_obj.strftime('%a, %b %d')
strftime(date_obj) ==
    [a |-> DayNames[((DaysFromCivil(date_obj.year, date_obj.month, date_obj.day) + 4) % 7) + 1],
     b |-> MonthNames[date_obj.month],
     d |-> date_obj.day]

\* number of daily entries after which the loop breaks
MaxDays == 5

\* the hours accepted as a day's representative sample
DayHours == {<<"1", "2">>, <<"1", "5">>}

\* the test of line 248 without the seen-dates part
AcceptsAnyDate(date_str, time_str, seen_dates) == time_str \in DayHours

\* line 248: the sample becomes its date's entry
Accepts(date_str, time_str, seen_dates) ==
    date_str \notin seen_dates /\ time_str \in DayHours

\* the test of line 263 off by one
LoopBreaksLate(daily_forecasts) == Len(daily_forecasts) > MaxDays

\* line 263: the loop stops
LoopBreaks(daily_forecasts) == Len(daily_forecasts) >= MaxDays

\* The for loop of lines 244-264 from item i on, with the entries accepted
\* so far and the dates seen so far.  Each entry carries `src`, the
\* position of its sample in the upstream list (not a field of the code's
\* dict: it lets properties name the sample an entry came from).
RECURSIVE ForecastLoop(_, _, _, _, _)
ForecastLoop(list, i, temp_unit, seen_dates, daily_forecasts) ==
    IF i > Len(list) THEN Ret(daily_forecasts)
    ELSE LET item == list[i]
         IN  IF item.dt_txt.t # "str" THEN Raised("KeyError")
             ELSE LET date_str == Slice(item.dt_txt.chars, 0, 10)
                      time_str == Slice(item.dt_txt.chars, 11, 13)
                  IN  IF Accepts(date_str, time_str, seen_dates)
                      THEN LET date_obj == strptime(date_str)
                           IN
                           IF \/ date_obj.raised
                              \/ item.temp.t = "missing"
                              \/ item.description.t = "missing"
                              \/ item.humidity.t = "missing"
                           THEN Raised("Error")
                           ELSE LET entry == [date |-> strftime(date_obj.val),
                                              temperature |-> item.temp,
                                              temp_unit |-> temp_unit,
                                              condition |-> item.description,
                                              humidity |-> item.humidity,
                                              wind_speed |-> Get(item.wind_speed, Num(0)),
                                              src |-> i]
                                    appended == Append(daily_forecasts, entry)
                                IN  IF LoopBreaks(appended)
                                    THEN Ret(appended)
                                    ELSE ForecastLoop(list, i + 1, temp_unit,
                                                      seen_dates \cup {date_str}, appended)
                      ELSE ForecastLoop(list, i + 1, temp_unit, seen_dates, daily_forecasts)

\* lines 229-272: the forecast request and the selection; `issued` are the
\* requests made before.  A forecast body is [haslist, list]: data['list']
\* raises when haslist is FALSE.
ForecastQuery(coordinates, units, fc, issued) ==
    LET cs == issued \o <<Request(FORECAST_URL, "latlon", Missing, 10, fc)>>
        none == [ret |-> PyNone, calls |-> cs]
    IN  IF fc.kind = "exc" THEN none
        ELSE IF fc.status = 200
        THEN IF Json(fc).raised THEN none
             ELSE LET data == Json(fc).val
                      temp_unit == IF units = Str("imperial") THEN "F" ELSE "C"
                  IN  IF ~data.haslist THEN none
                      ELSE LET loop == ForecastLoop(data.list, 1, temp_unit, {}, <<>>)
                           IN  IF loop.raised THEN none
                               ELSE [ret |-> [t |-> "dict",
                                              city |-> coordinates.name,
                                              country |-> coordinates.country,
                                              forecasts |-> loop.val],
                                     calls |-> cs]
        ELSE none

\* the forecast endpoint tried by city name when the geocoder finds nothing
get_forecast_data_by_name(city, units, geo, fc) ==
    LET g == get_coordinates_for_city(city, geo)
        coordinates == g.ret
    IN  IF coordinates = PyNone
        THEN [ret |-> PyNone,
              calls |-> g.calls \o <<Request(FORECAST_URL, "q", Missing, 10, fc)>>]
        ELSE ForecastQuery(coordinates, units, fc, g.calls)

\* geo: response to the geocoding request; fc: to the forecast request
get_forecast_data(city, units, geo, fc) ==
    LET g == get_coordinates_for_city(city, geo)
        coordinates == g.ret
    IN  IF coordinates = PyNone
        THEN [ret |-> PyNone, calls |-> g.calls]
        ELSE ForecastQuery(coordinates, units, fc, g.calls)

----------------------------------------------------------------------------
(* handle_call_tool *)

\* [TextContent(type="text", text=...)]: `text` names the message, the
\* other fields are what is interpolated into it
Text(msg, fields) == [kind |-> "text", text |-> msg] @@ fields
\* an exception leaving handle_call_tool
Fault(e) == [kind |-> "fault", text |-> e]

\* int(x) of a number in thousandths: truncation towards zero
PyInt(n) == IF n >= 0 THEN n \div 1000 ELSE -((-n) \div 1000)
\* f"{x:.1f}" of a number in thousandths: tenths, rounded
Fmt1f(n) == IF n >= 0 THEN (n + 50) \div 100 ELSE -((-n + 50) \div 100)

\* lines 412-429: the formatting of a weather report
RenderWeather(weather_data) ==
    IF weather_data.temperature.t = "none" THEN Fault("TypeError")
    ELSE IF weather_data.temperature.t # "num" THEN Fault("ValueError")
    ELSE IF weather_data.feels_like.t = "none" THEN Fault("TypeError")
    ELSE IF weather_data.feels_like.t # "num" THEN Fault("ValueError")
    ELSE IF weather_data.wind_speed.t = "none" THEN Fault("TypeError")
    ELSE IF weather_data.wind_speed.t # "num" THEN Fault("ValueError")
    ELSE IF weather_data.condition.t # "str" THEN Fault("AttributeError")
    ELSE Text("Weather for",
              [temp_display |-> <<PyInt(weather_data.temperature.n), weather_data.temp_unit>>,
               feels_like_display |-> <<PyInt(weather_data.feels_like.n), weather_data.temp_unit>>,
               wind_display |-> <<Fmt1f(weather_data.wind_speed.n), weather_data.wind_unit>>,
               visibility |-> Fmt1f(weather_data.visibility.n),
               sunrise |-> weather_data.sunrise,
               sunset |-> weather_data.sunset,
               air_quality |-> IF "aqi" \in DOMAIN weather_data
                               THEN <<weather_data.aqi_label, weather_data.aqi>>
                               ELSE <<>>])

\* lines 446-450: the rendering of the forecast entries from the i-th on
RECURSIVE RenderForecasts(_, _, _)
RenderForecasts(forecasts, i, response) ==
    IF i > Len(forecasts) THEN Ret(response)
    ELSE LET forecast == forecasts[i]
         IN  IF forecast.temperature.t = "none" THEN Raised("TypeError")
             ELSE IF forecast.temperature.t # "num" THEN Raised("ValueError")
             ELSE IF forecast.condition.t # "str" THEN Raised("AttributeError")
             ELSE IF forecast.wind_speed.t = "none" THEN Raised("TypeError")
             ELSE IF forecast.wind_speed.t # "num" THEN Raised("ValueError")
             ELSE RenderForecasts(forecasts, i + 1,
                      Append(response,
                             [date |-> forecast.date,
                              temp_display |-> <<PyInt(forecast.temperature.n), forecast.temp_unit>>,
                              wind |-> <<Fmt1f(forecast.wind_speed.n), "m/s">>]))

\* lines 476-490: the numbered list of the matches from the i-th on
RECURSIVE RenderCities(_, _, _)
RenderCities(data, i, listed) ==
    IF i > Len(data) THEN Ret(listed)
    ELSE LET location == data[i]
         IN  IF location.name.t = "missing" THEN Raised("KeyError")
             ELSE IF Get(location.lat, Num(0)).t # "num" THEN Raised("ValueError")
             ELSE IF Get(location.lon, Num(0)).t # "num" THEN Raised("ValueError")
             ELSE RenderCities(data, i + 1,
                      Append(listed, [i |-> i, city_name |-> location.name,
                                      country |-> Get(location.country, Str(""))]))

\* env holds the response the upstream gives to each request the
\* invocation may issue: wq, geo, wc, aq (get_weather), geo, fc
\* (get_forecast), sr (search_cities)
handle_call_tool(tool, args, env) ==
    IF tool = "get_weather"
    THEN LET city == ArgGet(args, "city", PyNone)
             units == ArgGet(args, "units", Str("metric"))
         IN  IF ~Truthy(city)
             THEN [result |-> Text("Error: City name is required", <<>>),
                   data_ret |-> PyNone, calls |-> <<>>]
             ELSE With(get_weather_data(city, units, env.wq, env.geo, env.wc, env.aq),
                       LAMBDA w :
                         IF w.ret # PyNone
                         THEN [result |-> RenderWeather(w.ret),
                               data_ret |-> w.ret, calls |-> w.calls]
                         ELSE [result |-> Text("Could not find weather data", [city |-> city]),
                               data_ret |-> w.ret, calls |-> w.calls])
    ELSE IF tool = "get_forecast"
    THEN LET city == ArgGet(args, "city", PyNone)
             units == ArgGet(args, "units", Str("metric"))
         IN  IF ~Truthy(city)
             THEN [result |-> Text("Error: City name is required", <<>>),
                   data_ret |-> PyNone, calls |-> <<>>]
             ELSE With(get_forecast_data(city, units, env.geo, env.fc),
                       LAMBDA f :
                         IF f.ret # PyNone
                         THEN With(RenderForecasts(f.ret.forecasts, 1, <<>>),
                                   LAMBDA r :
                                     [result |-> IF r.raised THEN Fault(r.val)
                                                 ELSE Text("5-Day Forecast for", [days |-> r.val]),
                                      data_ret |-> f.ret, calls |-> f.calls])
                         ELSE [result |-> Text("Could not find forecast data", [city |-> city]),
                               data_ret |-> f.ret, calls |-> f.calls])
    ELSE IF tool = "search_cities"
    THEN LET query == ArgGet(args, "query", PyNone)
             limit == ArgGet(args, "limit", Num(5))
         IN  IF ~Truthy(query)
             THEN [result |-> Text("Error: Search query is required", <<>>),
                   data_ret |-> PyNone, calls |-> <<>>]
             ELSE LET cs == <<Request(GEOCODING_URL, "q", limit, 5, env.sr)>>
                      out(r) == [result |-> r, data_ret |-> PyNone, calls |-> cs]
                  IN  IF env.sr.kind = "exc" THEN out(Text("Search error", <<>>))
                      ELSE IF env.sr.status = 200
                      THEN IF Json(env.sr).raised THEN out(Text("Search error", <<>>))
                           ELSE LET data == Json(env.sr).val
                                IN  IF Len(data) > 0
                                    THEN LET r == RenderCities(data, 1, <<>>)
                                         IN  IF r.raised THEN out(Text("Search error", <<>>))
                                             ELSE out(Text("Found cities matching",
                                                           [found |-> Len(data), listed |-> r.val]))
                                    ELSE out(Text("No cities found matching", <<>>))
                      ELSE out(Text("Error searching for cities", <<>>))
    ELSE [result |-> Text("Unknown tool", [name |-> tool]),
          data_ret |-> PyNone, calls |-> <<>>]

----------------------------------------------------------------------------
(* The requests and the upstream responses tried *)

NoArgs == [k \in {} |-> PyNone]
\* the argument dicts with each key absent or bound to one of its values
ArgDicts(k1, vals1, k2, vals2) ==
    {NoArgs} \cup {(k1 :> v) : v \in vals1} \cup {(k2 :> v) : v \in vals2}
            \cup {(k1 :> v) @@ (k2 :> w) : v \in vals1, w \in vals2}

CityArgs == ArgDicts("city", {Str(""), Str("Paris")},
                     "units", {Str("metric"), Str("imperial")})
SearchArgs == ArgDicts("query", {Str(""), Str("Par")},
                       "limit", {Num(l) : l \in 1..MaxLimit})

\* a complete current-weather payload reporting the given wind speed
GoodWeather(speed) ==
    [coord_lat |-> Num(48850), coord_lon |-> Num(2350),
     has_sys |-> TRUE, sunrise |-> Num(1700000000), sunset |-> Num(1700030000),
     country |-> Str("FR"), name |-> Str("Paris"),
     temp |-> Num(15000), feels_like |-> Num(14200), humidity |-> Num(80000),
     pressure |-> Num(1013000), description |-> Str("light rain"),
     wind_speed |-> speed, wind_deg |-> Num(180000),
     clouds |-> Num(75000), visibility |-> Num(10000000)]

WindSpeeds == {Missing, Num(0), Num(3000), Num(10000)}

\* complete payloads, and payloads with one field absent, null or of the
\* wrong type
WeatherBodies ==
    LET g == GoodWeather(Num(3000))
    IN  {GoodWeather(w) : w \in WindSpeeds}
        \cup {[g EXCEPT !.coord_lat = Missing],
              [g EXCEPT !.has_sys = FALSE],
              [g EXCEPT !.sunrise = Missing],
              [g EXCEPT !.sunset = Str("n/a")],
              [g EXCEPT !.country = Missing],
              [g EXCEPT !.temp = Missing],
              [g EXCEPT !.temp = PyNone],
              [g EXCEPT !.temp = Str("n/a")],
              [g EXCEPT !.feels_like = PyNone],
              [g EXCEPT !.description = Missing],
              [g EXCEPT !.description = PyNone],
              [g EXCEPT !.wind_speed = PyNone],
              [g EXCEPT !.wind_speed = Str("calm")],
              [g EXCEPT !.visibility = Missing],
              [g EXCEPT !.visibility = PyNone]}

WeatherResponses ==
    {Exc, Http(404, BadJson), Http(500, BadJson), Http(200, BadJson)}
    \cup {Http(200, JsonBody(b)) : b \in WeatherBodies}

GoodLocation ==
    [lat |-> Num(48850), lon |-> Num(2350), name |-> Str("Paris"), country |-> Str("FR")]

GeoResponses ==
    {Exc, Http(401, BadJson), Http(200, BadJson), Http(200, JsonBody(<<>>)),
     Http(200, JsonBody(<<GoodLocation>>)),
     Http(200, JsonBody(<<[GoodLocation EXCEPT !.country = Missing]>>)),
     Http(200, JsonBody(<<[GoodLocation EXCEPT !.lat = Missing]>>))}

AqiValues == -1..MaxAqi

AirResponses ==
    {Exc, Http(500, BadJson), Http(200, BadJson),
     Http(200, JsonBody([haslist |-> FALSE, aqi |-> 0]))}
    \cup {Http(200, JsonBody([haslist |-> TRUE, aqi |-> a])) : a \in AqiValues}

\* the characters of the dt_txt "2024-01-0<day> <hour>:00:00"
DtTxt(day, hour) ==
    <<"2", "0", "2", "4", "-", "0", "1", "-", "0", Digits[day + 1], " ">>
    \o hour \o <<":", "0", "0", ":", "0", "0">>

Hours == {<<"0", "9">>, <<"1", "2">>, <<"1", "5">>}

\* a complete 3-hour sample
GoodSample(day, hour) ==
    [dt_txt |-> [t |-> "str", chars |-> DtTxt(day, hour)],
     temp |-> Num(15000), description |-> Str("light rain"),
     humidity |-> Num(80000), wind_speed |-> Num(3000)]

\* complete samples of two days, and samples with one field absent, null
\* or of the wrong type
Samples ==
    LET g == GoodSample(1, <<"1", "2">>)
    IN  {GoodSample(d, h) : d \in 1..2, h \in Hours}
        \cup {[g EXCEPT !.dt_txt = [t |-> "missing", chars |-> <<>>]],
              [g EXCEPT !.temp = Missing],
              [g EXCEPT !.temp = PyNone],
              [g EXCEPT !.description = PyNone]}

RECURSIVE SeqsUpTo(_, _)
\* the sequences over S of length at most n
SeqsUpTo(S, n) ==
    IF n = 0 THEN {<<>>}
    ELSE LET shorter == SeqsUpTo(S, n - 1)
         IN  shorter \cup {Append(q, x) : q \in {r \in shorter : Len(r) = n - 1}, x \in S}

ForecastResponses ==
    {Exc, Http(500, BadJson), Http(200, BadJson),
     Http(200, JsonBody([haslist |-> FALSE, list |-> <<>>]))}
    \cup {Http(200, JsonBody([haslist |-> TRUE, list |-> l])) : l \in SeqsUpTo(Samples, MaxFcLen)}

Locations ==
    {GoodLocation, [GoodLocation EXCEPT !.name = Missing]}

SearchResponses ==
    {Exc, Http(500, BadJson), Http(200, BadJson)}
    \cup {Http(200, JsonBody(l)) : l \in SeqsUpTo(Locations, MaxMatches)}

ToolNames == {"get_weather", "get_forecast", "search_cities"}
OtherNames == {"get_alerts", ""}

----------------------------------------------------------------------------
(* The dispatcher specification *)

Init ==
    /\ pc = "idle"
    /\ name = ""
    /\ arguments = NoArgs
    /\ calls = <<>>
    /\ data_ret = PyNone
    /\ returned = PyNone
    /\ forecast_list = <<>>

\* one invocation of handle_call_tool, run to completion
Invoke(tool, args, env) ==
    /\ pc = "idle"
    /\ pc' = "done"
    /\ name' = tool
    /\ arguments' = args
    /\ \E h \in {handle_call_tool(tool, args, env)} :
          /\ calls' = h.calls
          /\ data_ret' = h.data_ret
          /\ returned' = h.result

Env(wq, geo, wc, aq, fc, sr) ==
    [wq |-> wq, geo |-> geo, wc |-> wc, aq |-> aq, fc |-> fc, sr |-> sr]

\* The responses are drawn for the requests the invocation can reach: when
\* the name-based request raises or is answered 200 the code never falls
\* back, so the geocoding and coordinate-based responses are left at Exc
\* (a fallback taken by mistake would still show in `calls`).
CallGetWeather ==
    \E args \in CityArgs, aq \in AirResponses :
        \/ \E wq \in {r \in WeatherResponses : r.kind = "exc" \/ r.status = 200} :
              /\ Invoke("get_weather", args, Env(wq, Exc, Exc, aq, Exc, Exc))
              /\ UNCHANGED forecast_list
        \/ \E wq \in {r \in WeatherResponses : r.kind # "exc" /\ r.status # 200},
                geo \in GeoResponses, wc \in WeatherResponses :
              /\ Invoke("get_weather", args, Env(wq, geo, wc, aq, Exc, Exc))
              /\ UNCHANGED forecast_list

CallGetForecast ==
    \E args \in CityArgs, geo \in GeoResponses, fc \in ForecastResponses :
        /\ Invoke("get_forecast", args, Env(Exc, geo, Exc, Exc, fc, Exc))
        /\ UNCHANGED forecast_list

CallSearchCities ==
    \E args \in SearchArgs, sr \in SearchResponses :
        /\ Invoke("search_cities", args, Env(Exc, Exc, Exc, Exc, Exc, sr))
        /\ UNCHANGED forecast_list

CallUnknownTool ==
    \E tool \in OtherNames, args \in CityArgs \cup SearchArgs :
        /\ Invoke(tool, args, Env(Exc, Exc, Exc, Exc, Exc, Exc))
        /\ UNCHANGED forecast_list

\* the transport loop takes the next request: nothing of the finished
\* invocation is kept
NextRequest ==
    /\ pc = "done"
    /\ pc' = "idle"
    /\ name' = ""
    /\ arguments' = NoArgs
    /\ calls' = <<>>
    /\ data_ret' = PyNone
    /\ returned' = PyNone
    /\ forecast_list' = <<>>

Next ==
    \/ CallGetWeather
    \/ CallGetForecast
    \/ CallSearchCities
    \/ CallUnknownTool
    \/ NextRequest

Spec == Init /\ [][Next]_vars

----------------------------------------------------------------------------
(* The forecast-selection specification: get_forecast on lists of complete *)
(* samples, over every pattern of equal and different dates and of hours.  *)
(* The upstream's time series is laid out sample by sample in              *)
(* `forecast_list`, as (day, hour) pairs, before the invocation that is    *)
(* answered with it.                                                       *)

\* number of different dates among the samples laid out
NumDays(plan) == Cardinality({plan[i].day : i \in 1..Len(plan)})

\* The upstream adds a sample to the series it will answer with.  A series
\* holds a timestamp once.  Dates are compared for equality only, so the
\* dates of a series are numbered in the order of their first appearance:
\* every pattern of repeated, interleaved and out-of-order dates is
\* present once.
UpstreamSample ==
    /\ pc = "idle"
    /\ Len(forecast_list) < MaxSamples
    /\ \E d \in 1..(NumDays(forecast_list) + 1), h \in Hours :
          /\ \A i \in 1..Len(forecast_list) : forecast_list[i] # [day |-> d, hour |-> h]
          /\ forecast_list' = Append(forecast_list, [day |-> d, hour |-> h])
    /\ UNCHANGED <<pc, name, arguments, calls, data_ret, returned>>

\* the forecast body the upstream sends for the series laid out
ForecastBody(plan) ==
    [haslist |-> TRUE,
     list |-> [i \in 1..Len(plan) |-> GoodSample(plan[i].day, plan[i].hour)]]

CallForecastSelection ==
    /\ Invoke("get_forecast", ("city" :> Str("Paris")),
              Env(Exc, Http(200, JsonBody(<<GoodLocation>>)), Exc, Exc,
                  Http(200, JsonBody(ForecastBody(forecast_list))), Exc))
    /\ UNCHANGED forecast_list

NextForecast ==
    \/ UpstreamSample
    \/ CallForecastSelection
    \/ NextRequest

SpecForecast == Init /\ [][NextForecast]_vars

----------------------------------------------------------------------------
(* Properties *)

WeatherDone == pc = "done" /\ name = "get_weather"
ForecastDone == pc = "done" /\ name = "get_forecast"
SearchDone == pc = "done" /\ name = "search_cities"

\* the unit system the invocation asked for
RequestedUnits == ArgGet(arguments, "units", Str("metric"))

\* the upstream answered the geocoding request with a usable first match
GeoFound(resp) ==
    /\ resp.kind = "http" /\ resp.status = 200 /\ resp.body.valid
    /\ Len(resp.body.val) > 0
    /\ resp.body.val[1].lat.t # "missing"
    /\ resp.body.val[1].lon.t # "missing"
    /\ resp.body.val[1].name.t # "missing"

\* the upstream answered the air-pollution request with an index
AirSucceeded(resp) ==
    /\ resp.kind = "http" /\ resp.status = 200 /\ resp.body.valid
    /\ resp.body.val.haslist

\* the upstream answered a weather request with a payload from which a
\* report can be built
ValidWeather(req) ==
    /\ req.url = WEATHER_URL
    /\ req.resp.kind = "http" /\ req.resp.status = 200 /\ req.resp.body.valid
    /\ req.by = "q" =>
          /\ req.resp.body.val.coord_lat.t # "missing"
          /\ req.resp.body.val.coord_lon.t # "missing"
    /\ ~ReportRaises(req.resp.body.val, RequestedUnits, req.by = "q")

AqiFields == {"aqi", "aqi_label", "aqi_color"}

\* C2: in get_weather_data, when the name-based weather request is answered
\* with a status other than 200, the next request is the geocoding lookup;
\* if it yields coordinates the weather endpoint is requested again by
\* coordinates, and if it yields none there is no further request and the
\* result is None.
C2_FallbackOnNon200 ==
    (/\ WeatherDone /\ calls # <<>>
     /\ calls[1].url = WEATHER_URL /\ calls[1].by = "q"
     /\ calls[1].resp.kind = "http" /\ calls[1].resp.status # 200)
    => /\ Len(calls) >= 2
       /\ calls[2].url = GEOCODING_URL
       /\ IF GeoFound(calls[2].resp)
          THEN /\ Len(calls) >= 3
               /\ calls[3].url = WEATHER_URL
               /\ calls[3].by = "latlon"
          ELSE /\ Len(calls) = 2
               /\ data_ret = PyNone

C2_Witness ==
    /\ WeatherDone /\ Len(calls) >= 3
    /\ calls[1].resp.kind = "http" /\ calls[1].resp.status = 404
    /\ GeoFound(calls[2].resp)
    /\ calls[3].url = WEATHER_URL /\ calls[3].by = "latlon"
    /\ data_ret # PyNone

\* C3: on the direct and on the fallback path, whenever the weather payload
\* is valid get_weather_data returns a report, whatever the air-quality
\* lookup did; the report has the three air-quality fields if the lookup
\* succeeded and none of them if it failed.
C3_AirQualityOptional ==
    WeatherDone =>
        \A i \in 1..Len(calls) :
            ValidWeather(calls[i]) =>
                /\ data_ret # PyNone
                /\ Len(calls) = i + 1
                /\ calls[i + 1].url = AIR_POLLUTION_URL
                /\ IF AirSucceeded(calls[i + 1].resp)
                   THEN AqiFields \subseteq DOMAIN data_ret
                   ELSE AqiFields \cap DOMAIN data_ret = {}

C3_Witness ==
    /\ WeatherDone /\ Len(calls) = 4
    /\ calls[3].by = "latlon" /\ ValidWeather(calls[3])
    /\ calls[4].url = AIR_POLLUTION_URL /\ calls[4].resp = Exc
    /\ data_ret # PyNone
    /\ AqiFields \cap DOMAIN data_ret = {}

\* the argument each tool requires
RequiredArg(tool) == IF tool = "search_cities" THEN "query" ELSE "city"

\* C4: an invocation of get_weather, get_forecast or search_cities whose
\* required argument is missing returns the short error text and issues no
\* upstream request.
C4_MissingArgument ==
    (pc = "done" /\ name \in ToolNames /\ RequiredArg(name) \notin DOMAIN arguments)
    => /\ returned.kind = "text"
       /\ returned.text = IF name = "search_cities"
                          THEN "Error: Search query is required"
                          ELSE "Error: City name is required"
       /\ calls = <<>>

C4_Witness ==
    /\ SearchDone
    /\ DOMAIN arguments = {"limit"}
    /\ returned.text = "Error: Search query is required"
    /\ calls = <<>>

\* C5: in a get_forecast invocation the forecast endpoint is requested only
\* right after a geocoding lookup that returned coordinates; when the
\* lookup finds nothing or fails, there is no forecast request and the
\* response is the "Could not find forecast data" message.
C5_ForecastAfterGeocoding ==
    ForecastDone =>
        /\ \A i \in 1..Len(calls) :
              calls[i].url = FORECAST_URL =>
                  /\ i = 2
                  /\ calls[1].url = GEOCODING_URL
                  /\ GeoFound(calls[1].resp)
        /\ (calls # <<>> /\ ~GeoFound(calls[1].resp)) =>
              /\ Len(calls) = 1
              /\ calls[1].url = GEOCODING_URL
              /\ returned.kind = "text"
              /\ returned.text = "Could not find forecast data"

C5_Witness ==
    /\ ForecastDone /\ Len(calls) = 1
    /\ calls[1].url = GEOCODING_URL
    /\ calls[1].resp = Http(200, JsonBody(<<>>))
    /\ returned.text = "Could not find forecast data"

\* C6: search_cities called with limit = L lists at most L cities, also
\* when the upstream geocoder returns more than L matches.
C6_SearchAtMostLimit ==
    (SearchDone /\ returned.text = "Found cities matching")
    => Len(returned.listed) <= ArgGet(arguments, "limit", Num(5)).n

\* the payload of the weather response a report was built from: the
\* request before the air-pollution request
ReportSource == calls[Len(calls) - 1].resp.body.val

\* C7: for units metric and imperial, on both paths, the report of
\* get_weather_data carries the unit tags of the requested system, and
\* its wind speed is the upstream's speed times 2.237 for imperial and
\* the upstream's speed unchanged for metric.
C7_UnitsConsistent ==
    (WeatherDone /\ data_ret # PyNone
     /\ RequestedUnits \in {Str("metric"), Str("imperial")})
    => LET upstream == Get(ReportSource.wind_speed, Num(0))
       IN  IF RequestedUnits = Str("imperial")
           THEN /\ data_ret.temp_unit = "F"
                /\ data_ret.wind_unit = "mph"
                /\ data_ret.wind_speed = Num((upstream.n * 2237) \div 1000)
           ELSE /\ data_ret.temp_unit = "C"
                /\ data_ret.wind_unit = "m/s"
                /\ data_ret.wind_speed = upstream

C7_Witness ==
    /\ WeatherDone /\ data_ret # PyNone
    /\ RequestedUnits = Str("imperial")
    /\ Len(calls) = 4 /\ calls[3].by = "latlon"
    /\ ReportSource.wind_speed = Num(3000)
    /\ data_ret.wind_speed = Num(6711)
    /\ data_ret.wind_unit = "mph"

\* C8: handle_call_tool never raises: whatever the tool name, the
\* arguments and the upstream's responses, it returns a text response,
\* and for an unknown tool name the "Unknown tool" text.
C8_NoFault ==
    pc = "done" =>
        /\ returned.kind = "text"
        /\ name \notin ToolNames => returned.text = "Unknown tool"

\* C9: get_air_quality_data labels index 1 "Good", 2 "Fair", 3 "Moderate",
\* 4 "Poor", 5 "Very Poor", and any other integer "Unknown" with the
\* neutral marker, without failing.
C9_AqiLabels ==
    (WeatherDone /\ calls # <<>> /\ data_ret # PyNone
     /\ calls[Len(calls)].url = AIR_POLLUTION_URL
     /\ AirSucceeded(calls[Len(calls)].resp))
    => LET aqi == calls[Len(calls)].resp.body.val.aqi
       IN  /\ "aqi" \in DOMAIN data_ret
           /\ data_ret.aqi = aqi
           /\ aqi = 1 => data_ret.aqi_label = "Good"
           /\ aqi = 2 => data_ret.aqi_label = "Fair"
           /\ aqi = 3 => data_ret.aqi_label = "Moderate"
           /\ aqi = 4 => data_ret.aqi_label = "Poor"
           /\ aqi = 5 => data_ret.aqi_label = "Very Poor"
           /\ aqi \notin 1..5 =>
                 /\ data_ret.aqi_label = "Unknown"
                 /\ data_ret.aqi_color = "white"

C9_Witness ==
    /\ WeatherDone /\ data_ret # PyNone
    /\ "aqi" \in DOMAIN data_ret
    /\ data_ret.aqi = 0
    /\ data_ret.aqi_label = "Unknown"

----------------------------------------------------------------------------
(* Properties of the forecast selection, on the series laid out in         *)
(* forecast_list                                                           *)

\* a successful get_forecast_data of the forecast-selection specification
SelectionDone == ForecastDone /\ data_ret # PyNone /\ Len(calls) = 2

\* the sample of the series an entry was built from
Source(entry) == forecast_list[entry.src]

MiddayHours == {<<"1", "2">>, <<"1", "5">>}

\* C1: a successful get_forecast_data returns at most 5 entries, no two of
\* them from samples of the same calendar date, each from a sample whose
\* hour is 12 or 15.
C1_DailyEntries ==
    SelectionDone =>
        LET f == data_ret.forecasts
        IN  /\ Len(f) <= 5
            /\ \A i \in 1..Len(f) :
                  /\ f[i].src \in 1..Len(forecast_list)
                  /\ Source(f[i]).hour \in MiddayHours
                  /\ f[i].date.d = Source(f[i]).day
            /\ \A i, j \in 1..Len(f) :
                  i # j => Source(f[i]).day # Source(f[j]).day

\* six dates each with a midday sample, of which five are returned
C1_Witness ==
    /\ SelectionDone
    /\ NumDays(forecast_list) = 6
    /\ \A i \in 1..Len(forecast_list) : forecast_list[i].hour \in MiddayHours
    /\ Len(data_ret.forecasts) = 5

\* the samples that are the first of their date with hour 12 or 15
FirstMidday(plan) ==
    {i \in 1..Len(plan) :
        /\ plan[i].hour \in MiddayHours
        /\ \A j \in 1..(i - 1) :
              ~(plan[j].day = plan[i].day /\ plan[j].hour \in MiddayHours)}

\* C10: the entries are, in upstream order, exactly the first sample of
\* each date whose hour is 12 or 15, up to the fifth such sample; a date
\* without such a sample gives no entry and no error, and of a date's
\* hour-12 and hour-15 samples the earlier in upstream order is kept.
C10_FirstMiddayPerDate ==
    (ForecastDone /\ Len(calls) = 2) =>
        /\ data_ret # PyNone
        /\ returned.kind = "text"
        /\ LET f == data_ret.forecasts
               firsts == FirstMidday(forecast_list)
           IN  /\ \A k \in 1..(Len(f) - 1) : f[k].src < f[k + 1].src
               /\ {f[k].src : k \in 1..Len(f)} =
                     {i \in firsts : Cardinality({j \in firsts : j < i}) < 5}
               /\ \A k \in 1..Len(f) : f[k].date.d = Source(f[k]).day

\* a date whose hour-15 sample precedes its hour-12 sample and a date with
\* no midday sample
C10_Witness ==
    /\ SelectionDone
    /\ Len(forecast_list) >= 2
    /\ forecast_list[1] = [day |-> 1, hour |-> <<"1", "5">>]
    /\ forecast_list[2] = [day |-> 1, hour |-> <<"1", "2">>]
    /\ data_ret.forecasts[1].src = 1
    /\ \E i \in 1..Len(forecast_list) :
          /\ forecast_list[i].hour = <<"0", "9">>
          /\ \A j \in 1..Len(forecast_list) :
                forecast_list[j].day = forecast_list[i].day => j = i
    /\ Len(data_ret.forecasts) = Cardinality(FirstMidday(forecast_list))

\* the sum of the timeout ceilings of the requests of a log, in seconds
RECURSIVE TimeoutSum(_)
TimeoutSum(log) ==
    IF log = <<>> THEN 0 ELSE log[1].timeout + TimeoutSum(Tail(log))

\* C11, as stated: in one get_weather invocation, the fallback path
\* included, the timeout ceilings of the upstream requests sum to at most
\* 20 seconds: no more than two requests of 10 seconds each.
C11_TimeoutsAtMostTwenty ==
    WeatherDone => /\ Len(calls) <= 2
                   /\ TimeoutSum(calls) <= 20

\* C11, amended: in one get_weather invocation every upstream request has a
\* ceiling of 10 seconds and at most four are issued in sequence (weather by
\* name, geocoding, weather by coordinates, air pollution), so the ceilings
\* sum to at most 40 seconds; without the fallback at most two requests are
\* issued, 20 seconds.
C11_TimeoutCeilings ==
    WeatherDone =>
        /\ \A i \in 1..Len(calls) : calls[i].timeout = 10
        /\ Len(calls) <= 4
        /\ TimeoutSum(calls) <= 40
        /\ (\A i \in 1..Len(calls) : calls[i].url # GEOCODING_URL)
              => Len(calls) <= 2 /\ TimeoutSum(calls) <= 20

C11_Witness ==
    /\ WeatherDone /\ Len(calls) = 4
    /\ calls[1].url = WEATHER_URL /\ calls[1].by = "q"
    /\ calls[2].url = GEOCODING_URL
    /\ calls[3].url = WEATHER_URL /\ calls[3].by = "latlon"
    /\ calls[4].url = AIR_POLLUTION_URL
    /\ ~AirSucceeded(calls[4].resp)
    /\ TimeoutSum(calls) = 40

\* the name-based weather request of the invocation failed otherwise than
\* by a status: it raised, or was answered 200 with a payload from which no
\* report can be built (malformed, or a required field missing)
DirectFailedWithoutStatus ==
    /\ WeatherDone /\ calls # <<>>
    /\ calls[1].url = WEATHER_URL /\ calls[1].by = "q"
    /\ \/ calls[1].resp.kind = "exc"
       \/ calls[1].resp.status = 200 /\ ~ValidWeather(calls[1])

\* C12: the geocoding fallback of get_weather_data is taken only when the
\* name-based weather request is answered with a status other than 200.
\* When that request raises, or is answered 200 with a payload missing a
\* required field, get_weather_data returns None, and neither the geocoding
\* lookup nor a coordinate-based weather request is issued.
C12_FallbackOnlyOnNon200 ==
    /\ DirectFailedWithoutStatus =>
          /\ data_ret = PyNone
          /\ \A i \in 1..Len(calls) :
                /\ calls[i].url # GEOCODING_URL
                /\ ~(calls[i].url = WEATHER_URL /\ calls[i].by = "latlon")
          /\ calls[1].resp.kind = "exc" => Len(calls) = 1
    /\ (WeatherDone /\ \E i \in 1..Len(calls) : calls[i].url = GEOCODING_URL)
          => /\ calls[1].resp.kind = "http"
             /\ calls[1].resp.status # 200

C12_Witness ==
    /\ DirectFailedWithoutStatus
    /\ calls[1].resp.status = 200 /\ calls[1].resp.body.valid
    /\ calls[1].resp.body.val.coord_lat.t # "missing"
    /\ calls[1].resp.body.val.coord_lon.t # "missing"
    /\ calls[1].resp.body.val.temp.t = "missing"
    /\ Len(calls) = 2 /\ calls[2].url = AIR_POLLUTION_URL
    /\ data_ret = PyNone

\* the same case when the request raised
C12_WitnessRaised ==
    /\ DirectFailedWithoutStatus
    /\ calls[1].resp.kind = "exc"
    /\ Len(calls) = 1
    /\ data_ret = PyNone

====
